---- MODULE Spec2Model ----
(***************************************************************************)
(* gh-projects-charts: the sprint window, the issue filter, the burndown   *)
(* series, the ideal line and the response cache of Chart_generator        *)
(* (src/src/main.py) and BurndownChart (src/src/burndown_chart.py).        *)
(*                                                                         *)
(* Three kinds of date value are kept apart, as in the code:               *)
(*   - an ISO-8601 timestamp of the API        <<"iso", y, m, d, hh>>      *)
(*   - a "DD-MM-YYYY" string                   <<"dmy", d, m, y>>          *)
(*   - a datetime.date object                  [year, month, day]          *)
(* utc_to_date, strptime and strftime convert between them.                *)
(***************************************************************************)
EXTENDS Integers, Sequences, FiniteSets, TLC

VARIABLES
    pc,            \* position of the program
    config,        \* self.config: start_date and end_date as DD-MM-YYYY strings
    dates,         \* self.dates / self.sprint_dates: list of DD-MM-YYYY strings
    data,          \* the local `data` of generate_charts / the `issues` argument
    burndown,      \* the Burndown_data built by the series builder, or None
    ideal_line,    \* the ideal line of plot_burndown_chart, or None
    raised,        \* the exception that left the program, or "none"
    cache_file,    \* resources/data.json: its kind and content
    mtime,         \* st_mtime of the cache file, in ticks
    now,           \* datetime.now().timestamp(), in ticks
    ttl_seconds,   \* argument of check_and_get_cache
    force_refresh, \* argument of check_and_get_cache
    cached,        \* what check_and_get_cache returned
    response,      \* the local `data` of generate_charts while it is the response
    run,           \* the number of this run of the program, from 1
    requested      \* this run has called api_wrapper.get_request()

vars == <<pc, config, dates, data, burndown, ideal_line, raised,
          cache_file, mtime, now, ttl_seconds, force_refresh, cached, response,
          run, requested>>

\* Python's None / a missing key, for a date field
None == <<"None">>

(***************************************************************************)
(* datetime.date: the proleptic Gregorian calendar                         *)
(***************************************************************************)
IsLeap(y) == (y % 4 = 0 /\ y % 100 # 0) \/ y % 400 = 0

DaysInMonth(y, m) ==
    IF m = 2 THEN (IF IsLeap(y) THEN 29 ELSE 28)
    ELSE IF m \in {4, 6, 9, 11} THEN 30 ELSE 31

Date(y, m, d) == [year |-> y, month |-> m, day |-> d]

\* date.__le__ / date.__ge__: by (year, month, day)
DateLE(a, b) ==
    \/ a.year < b.year
    \/ a.year = b.year /\ a.month < b.month
    \/ a.year = b.year /\ a.month = b.month /\ a.day <= b.day

DateGE(a, b) == DateLE(b, a)

\* current += timedelta(days=1)
NextDay(dt) ==
    IF dt.day < DaysInMonth(dt.year, dt.month)
        THEN Date(dt.year, dt.month, dt.day + 1)
    ELSE IF dt.month < 12
        THEN Date(dt.year, dt.month + 1, 1)
    ELSE Date(dt.year + 1, 1, 1)

PrevDay(dt) ==
    IF dt.day > 1
        THEN Date(dt.year, dt.month, dt.day - 1)
    ELSE IF dt.month > 1
        THEN Date(dt.year, dt.month - 1, DaysInMonth(dt.year, dt.month - 1))
    ELSE Date(dt.year - 1, 12, 31)

RECURSIVE DaysBeforeMonth(_, _)
DaysBeforeMonth(y, m) ==
    IF m = 1 THEN 0 ELSE DaysBeforeMonth(y, m - 1) + DaysInMonth(y, m - 1)

\* date.toordinal(): (end - start).days is ToOrdinal(end) - ToOrdinal(start)
ToOrdinal(dt) ==
    LET y1 == dt.year - 1
    IN  y1 * 365 + (y1 \div 4) - (y1 \div 100) + (y1 \div 400)
        + DaysBeforeMonth(dt.year, dt.month) + dt.day

RECURSIVE PlusDays(_, _)
PlusDays(dt, k) ==
    IF k = 0 THEN dt
    ELSE IF k > 0 THEN PlusDays(NextDay(dt), k - 1)
    ELSE PlusDays(PrevDay(dt), k + 1)

(***************************************************************************)
(* Conversions                                                             *)
(***************************************************************************)
\* date.strftime("%d-%m-%Y")
strftime(dt) == <<"dmy", dt.day, dt.month, dt.year>>

\* datetime.strptime(s, "%d-%m-%Y").date(), for s a DD-MM-YYYY string (every
\* string that reaches it is one: config dates, and timestamps after
\* format_times)
strptime(s) == Date(s[4], s[3], s[2])

\* util.utc_to_date: the UTC calendar day of the timestamp, as DD-MM-YYYY
utc_to_date(ts) == <<"dmy", ts[4], ts[3], ts[2]>>

(***************************************************************************)
(* Chart_generator.create_dates                                            *)
(***************************************************************************)
\* the loop with `while current < end_date`: the last day is left out
RECURSIVE DaysLoopExclusive(_, _, _)
DaysLoopExclusive(current, end_date, days) ==
    IF DateLE(current, end_date) /\ current # end_date
        THEN DaysLoopExclusive(NextDay(current), end_date,
                               Append(days, strftime(current)))
        ELSE days

RECURSIVE DaysLoop(_, _, _)
DaysLoop(current, end_date, days) ==
    IF DateLE(current, end_date)
        THEN DaysLoop(NextDay(current), end_date, Append(days, strftime(current)))
        ELSE days

create_dates(cfg) ==
    DaysLoop(strptime(cfg.start_date), strptime(cfg.end_date), <<>>)

(***************************************************************************)
(* Issue records (the nodes of the API response)                           *)
(*   content: [kind |-> "absent"]  the node has no "content" key           *)
(*            [kind |-> "null"]    "content": null                         *)
(*            [kind |-> "dict", createdAt, closedAt]                       *)
(***************************************************************************)
AbsentContent == [kind |-> "absent"]
NullContent   == [kind |-> "null"]
Content(created, closed) ==
    [kind |-> "dict", createdAt |-> created, closedAt |-> closed]

\* the empty dict {}: every .get() on it gives None
EmptyDict == Content(None, None)

(***************************************************************************)
(* Chart_generator.format_times                                            *)
(***************************************************************************)
FormatValue(date_value) ==
    IF date_value = None THEN None ELSE utc_to_date(date_value)

FormatIssue(issue) ==
    IF issue.content.kind # "dict"          \* not isinstance(content, dict)
        THEN issue
        ELSE [issue EXCEPT !.content.closedAt  = FormatValue(@),
                           !.content.createdAt = FormatValue(@)]

format_times(issues) == [i \in 1..Len(issues) |-> FormatIssue(issues[i])]

(***************************************************************************)
(* Chart_generator.filter_on_sprint                                        *)
(* The result is [exc |-> "none", value |-> included] or, when a statement *)
(* of the loop raises, [exc |-> <exception>, value |-> <<>>].              *)
(***************************************************************************)
Returns(v) == [exc |-> "none", value |-> v]
Raises(e)  == [exc |-> e, value |-> <<>>]

\* the test without the closedAt clause: created <= self.end_date alone
OverlapsCreatedOnly(created_s, closed_s, start_date, end_date) ==
    DateLE(strptime(created_s), end_date)

\* overlaps = created <= self.end_date and (closed is None or closed >= self.start_date)
Overlaps(created_s, closed_s, start_date, end_date) ==
    /\ DateLE(strptime(created_s), end_date)
    /\ (closed_s = None \/ DateGE(strptime(closed_s), start_date))

RECURSIVE FilterLoop(_, _, _, _, _)
FilterLoop(issues, i, included, start_date, end_date) ==
    IF i > Len(issues) THEN Returns(included)
    ELSE LET issue == issues[i]
         IN  \* content = issue.get("content", {}); content.get("createdAt")
             IF issue.content.kind = "null" THEN Raises("AttributeError")
             ELSE LET content   == IF issue.content.kind = "absent"
                                       THEN EmptyDict ELSE issue.content
                      created_s == content.createdAt
                      closed_s  == content.closedAt
                  IN  IF created_s = None
                          THEN FilterLoop(issues, i + 1, included, start_date, end_date)
                      ELSE IF Overlaps(created_s, closed_s, start_date, end_date)
                          THEN FilterLoop(issues, i + 1, Append(included, issue),
                                          start_date, end_date)
                      ELSE FilterLoop(issues, i + 1, included, start_date, end_date)

filter_on_sprint(cfg, issues) ==
    FilterLoop(issues, 1, <<>>, strptime(cfg.start_date), strptime(cfg.end_date))

(***************************************************************************)
(* Chart_generator.prep_data_for_burndown_chart                            *)
(***************************************************************************)
\* the test with `current_date < closedAt`: closed on the day is not open
CountsOpenStrict(issue, current_date) ==
    LET content    == IF issue.content.kind = "dict"
                          THEN issue.content ELSE EmptyDict
        date_value == content.closedAt
    IN  \/ date_value = None
        \/ (DateLE(current_date, strptime(date_value))
               /\ current_date # strptime(date_value))

\* one pass of the inner loop: does the issue add 1 to num_issues_open
CountsOpen(issue, current_date) ==
    LET content    == IF issue.content.kind = "dict"    \* issue.get("content") or {}
                          THEN issue.content ELSE EmptyDict
        date_value == content.closedAt
    IN  \/ date_value = None
        \/ DateLE(current_date, strptime(date_value))

RECURSIVE NumIssuesOpen(_, _, _)
NumIssuesOpen(issues, i, current_date) ==
    IF i > Len(issues) THEN 0
    ELSE (IF CountsOpen(issues[i], current_date) THEN 1 ELSE 0)
         + NumIssuesOpen(issues, i + 1, current_date)

NoBurndown == [kind |-> "None"]

\* the builder with `num_issues_open = 0` before the loop over the dates:
\* the counter runs on from one day to the next
RECURSIVE RunningCount(_, _, _)
RunningCount(self_dates, issues, d) ==
    IF d = 0 THEN 0
    ELSE RunningCount(self_dates, issues, d - 1)
         + NumIssuesOpen(issues, 1, strptime(self_dates[d]))

prep_data_counter_not_reset(self_dates, issues) ==
    [kind         |-> "Burndown_data",
     total_issues |-> Len(issues),
     dates        |-> self_dates,
     open_issues  |-> [d \in 1..Len(self_dates) |->
                          RunningCount(self_dates, issues, d)]]

prep_data_for_burndown_chart(self_dates, issues) ==
    [kind         |-> "Burndown_data",
     total_issues |-> Len(issues),
     dates        |-> self_dates,
     open_issues  |-> [d \in 1..Len(self_dates) |->
                          NumIssuesOpen(issues, 1, strptime(self_dates[d]))]]

(***************************************************************************)
(* BurndownChart.__prepare_burndown_data (the same loop, in the class      *)
(* that plots from a list of issues)                                       *)
(***************************************************************************)
IsOpenOn(issue, current_date) ==
    LET content    == IF issue.content.kind = "dict"
                          THEN issue.content ELSE EmptyDict
        date_value == content.closedAt
    IN  \/ date_value = None
        \/ DateLE(current_date, strptime(date_value))

RECURSIVE CountOpen(_, _, _)
CountOpen(issues, i, current_date) ==
    IF i > Len(issues) THEN 0
    ELSE (IF IsOpenOn(issues[i], current_date) THEN 1 ELSE 0)
         + CountOpen(issues, i + 1, current_date)

prepare_burndown_data(sprint_dates, issues) ==
    [kind         |-> "Burndown_data",
     total_issues |-> Len(issues),
     dates        |-> sprint_dates,
     open_issues  |-> [d \in 1..Len(sprint_dates) |->
                          CountOpen(issues, 1, strptime(sprint_dates[d]))]]

(***************************************************************************)
(* The ideal line of plot_burndown_chart.  The values are the quotients of *)
(* Python's true division, kept exact as fractions num/den with den > 0:   *)
(*   total_issues - i * total_issues / (n - 1)                             *)
(*     = (total_issues * (n - 1) - i * total_issues) / (n - 1)             *)
(***************************************************************************)
Frac(n, d) == [num |-> n, den |-> d]

\* the value with len(dates) as the divisor
IdealValueOverLen(total_issues, i, n) ==
    Frac(total_issues * n - i * total_issues, n)

IdealValue(total_issues, i, n) ==
    Frac(total_issues * (n - 1) - i * total_issues, n - 1)

\* i ranges over range(len(dates)) = 0..n-1; the list is 1-indexed here
ideal_burndown(total_issues, n) ==
    IF n > 1
        THEN [k \in 1..n |-> IdealValue(total_issues, k - 1, n)]
        ELSE <<Frac(total_issues, 1)>>

(***************************************************************************)
(* Responses and the cache file resources/data.json                        *)
(*   response kinds: "nodes"     data.user.projectV2.items.nodes is a list *)
(*                   "no_nodes"  a dict without that path (an API error    *)
(*                               such as {"message": ...})                 *)
(*                   "null_path" a dict with a null on that path (GraphQL  *)
(*                               errors: {"data": {"user": null}, ...})    *)
(*   file kinds: "absent", "json" (parses to `content`), "corrupt" (not    *)
(*               JSON), "not_utf8" (bytes that do not decode as UTF-8),    *)
(*               "unreadable" (exists, open() fails with an OSError)       *)
(***************************************************************************)
NoResponse == [kind |-> "None", nodes |-> <<>>]
NodesResponse(nodes) == [kind |-> "nodes", nodes |-> nodes]
ErrorResponse == [kind |-> "no_nodes", nodes |-> <<>>]
NullPathResponse == [kind |-> "null_path", nodes |-> <<>>]

CacheFile(kind, content) == [kind |-> kind, content |-> content]
NoFile == CacheFile("absent", NoResponse)

\* ticks of the clock in one second: timestamps are floats, int() truncates
TicksPerSecond == 2

\* int(x) for x = ticks / TicksPerSecond: truncation towards zero
IntOfTicks(ticks) ==
    IF ticks >= 0 THEN ticks \div TicksPerSecond
                  ELSE -((-ticks) \div TicksPerSecond)

Max(a, b) == IF a >= b THEN a ELSE b

\* age_seconds = max(0, int(datetime.now().timestamp() - mtime))
AgeSeconds(file_mtime, clock) == Max(0, IntOfTicks(clock - file_mtime))

CacheRaises(e) == [exc |-> e, value |-> NoResponse]

check_and_get_cache(file, file_mtime, clock, ttl, force) ==
    IF force THEN Returns(NoResponse)
    ELSE IF file.kind = "absent" THEN Returns(NoResponse)
    ELSE IF ttl > 0 /\ AgeSeconds(file_mtime, clock) > ttl THEN Returns(NoResponse)
    ELSE IF file.kind = "unreadable" THEN Returns(NoResponse)   \* except OSError
    ELSE IF file.kind = "corrupt" THEN Returns(NoResponse)      \* except JSONDecodeError
    ELSE IF file.kind = "not_utf8" THEN CacheRaises("UnicodeDecodeError")
    ELSE Returns(file.content)

(***************************************************************************)
(* Inputs                                                                  *)
(***************************************************************************)
\* the calendar days the configuration and the timestamps are drawn from:
\* three days across a month end, where the order of the DD-MM-YYYY strings
\* and the order of the days differ
DaySet == {Date(2025, 1, 31), Date(2025, 2, 1), Date(2025, 2, 2)}

\* the longest list of issues
MaxIssues == 2

ConfigSet ==
    {[start_date |-> strftime(a), end_date |-> strftime(b), sprint |-> "7"] :
        a \in DaySet, b \in DaySet}

IsoStamps == {<<"iso", d.year, d.month, d.day, 12>> : d \in DaySet}
DmyStrings == {strftime(d) : d \in DaySet}

\* labels and sprint tag of an issue: a task of no sprint, and an issue of
\* sprint 5 whose first label is not the task label
Metas ==
    {[labels |-> <<"task", "bug">>, sprintTag |-> "None"],
     [labels |-> <<"bug", "task">>, sprintTag |-> "5"]}

Issue(content, meta) ==
    [content |-> content, labels |-> meta.labels, sprintTag |-> meta.sprintTag]

Issues(stamps) ==
    {Issue(AbsentContent, CHOOSE m \in Metas : m.sprintTag = "None"),
     Issue(NullContent, CHOOSE m \in Metas : m.sprintTag = "None")}
        \cup {Issue(Content(c, x), m) :
                c \in stamps \cup {None}, x \in stamps \cup {None}, m \in Metas}

SeqsUpTo(S, n) == UNION {[1..k -> S] : k \in 0..n}

\* what the API can answer
Responses ==
    {ErrorResponse, NullPathResponse}
        \cup {NodesResponse(ns) : ns \in SeqsUpTo(Issues(IsoStamps), MaxIssues)}

(***************************************************************************)
(* Chart_generator: construction and generate_charts                       *)
(***************************************************************************)
\* ttl_seconds of the call in generate_charts
CacheTtl == 3600

\* __init__: self.dates = self.create_dates()
ChartGeneratorInit ==
    /\ pc = "new"
    /\ dates' = create_dates(config)
    /\ pc' = "ready"
    /\ UNCHANGED <<run, requested, config, data, burndown, ideal_line, raised, cache_file, mtime,
                   now, ttl_seconds, force_refresh, cached, response>>

\* data = self.check_and_get_cache(ttl_seconds=3600)
GetCache ==
    /\ pc = "ready"
    /\ LET r == check_and_get_cache(cache_file, mtime, now, ttl_seconds, force_refresh)
       IN  /\ cached' = r.value
           /\ response' = r.value
           /\ raised' = r.exc
           /\ pc' = IF r.exc = "none" THEN "cache_checked" ELSE "raised"
    /\ UNCHANGED <<run, requested, config, dates, data, burndown, ideal_line, cache_file, mtime,
                   now, ttl_seconds, force_refresh>>

\* if data is None: data = self.api_wrapper.get_request(); json.dump(data, file)
\* (`answers`: what the API may answer)
RequestFrom(answers) ==
    /\ pc = "cache_checked"
    /\ cached = NoResponse
    /\ \E r \in answers :
        /\ response' = r
        /\ cache_file' = CacheFile("json", r)
    /\ mtime' = now
    /\ pc' = "have_response"
    /\ requested' = TRUE
    /\ UNCHANGED <<run, config, dates, data, burndown, ideal_line, raised, now,
                   ttl_seconds, force_refresh, cached>>

RequestData == RequestFrom(Responses)

\* nodes = data.get("data", {})...get("nodes"); if not a list: return
ExtractNodes ==
    /\ \/ pc = "have_response"
       \/ pc = "cache_checked" /\ cached # NoResponse
    /\ IF response.kind = "null_path"
           THEN /\ raised' = "AttributeError"
                /\ pc' = "raised"
                /\ data' = data
       ELSE IF response.kind = "no_nodes"
           THEN /\ pc' = "returned"
                /\ UNCHANGED <<raised, data>>
       ELSE /\ data' = response.nodes
            /\ pc' = "have_nodes"
            /\ raised' = raised
    /\ UNCHANGED <<run, requested, config, dates, burndown, ideal_line, cache_file, mtime, now,
                   ttl_seconds, force_refresh, cached, response>>

\* data = self.format_times(data)
FormatTimes ==
    /\ pc = "have_nodes"
    /\ data' = format_times(data)
    /\ pc' = "formatted"
    /\ UNCHANGED <<run, requested, config, dates, burndown, ideal_line, raised, cache_file, mtime,
                   now, ttl_seconds, force_refresh, cached, response>>

\* data = self.filter_on_sprint(data)
FilterOnSprint ==
    /\ pc = "formatted"
    /\ LET r == filter_on_sprint(config, data)
       IN  /\ raised' = r.exc
           /\ data' = IF r.exc = "none" THEN r.value ELSE data
           /\ pc' = IF r.exc = "none" THEN "filtered" ELSE "raised"
    /\ UNCHANGED <<run, requested, config, dates, burndown, ideal_line, cache_file, mtime, now,
                   ttl_seconds, force_refresh, cached, response>>

\* data_burndown_chart = self.prep_data_for_burndown_chart(data)
PrepData ==
    /\ pc = "filtered"
    /\ burndown' = prep_data_for_burndown_chart(dates, data)
    /\ pc' = "prepared"
    /\ UNCHANGED <<run, requested, config, dates, data, ideal_line, raised, cache_file, mtime, now,
                   ttl_seconds, force_refresh, cached, response>>

\* self.plot_burndown_chart(data_burndown_chart): ax.set_xlim(dates[0], dates[-1])
\* raises IndexError on an empty list of dates, before the ideal line is built
PlotBurndownChart ==
    /\ pc = "prepared"
    /\ IF Len(burndown.dates) = 0
           THEN /\ raised' = "IndexError"
                /\ pc' = "raised"
                /\ ideal_line' = ideal_line
           ELSE /\ ideal_line' = ideal_burndown(burndown.total_issues,
                                                Len(burndown.dates))
                /\ pc' = "plotted"
                /\ raised' = raised
    /\ UNCHANGED <<run, requested, config, dates, data, burndown, cache_file, mtime, now,
                   ttl_seconds, force_refresh, cached, response>>

\* responses found in the cache when the program starts
CachedSamples ==
    {ErrorResponse, NullPathResponse, NodesResponse(<<>>)}
        \cup {NodesResponse(<<i>>) : i \in {Issue(Content(c, None), m) :
                                              c \in IsoStamps, m \in Metas}}

\* the cache file when the program starts: none, or one that is not a
\* response, or the response an earlier run wrote
InitialFiles ==
    {NoFile, CacheFile("corrupt", NoResponse), CacheFile("not_utf8", NoResponse),
     CacheFile("unreadable", NoResponse)}
        \cup {CacheFile("json", r) : r \in CachedSamples}

\* ages of the cache file, in ticks, around the boundaries of a ttl
AgeTicks(ttl) ==
    {-1, 0, ttl * TicksPerSecond - 1, ttl * TicksPerSecond,
     (ttl + 1) * TicksPerSecond - 1, (ttl + 1) * TicksPerSecond}

\* the clock when the program runs: later than every age of the file
Epoch == 4 * CacheTtl

Init ==
    /\ pc = "new"
    /\ config \in ConfigSet
    /\ dates = <<>>
    /\ data = <<>>
    /\ burndown = NoBurndown
    /\ ideal_line = <<>>
    /\ raised = "none"
    /\ cache_file \in InitialFiles
    /\ now = Epoch
    /\ mtime \in {Epoch - a : a \in AgeTicks(CacheTtl)}
    /\ ttl_seconds = CacheTtl
    /\ force_refresh = FALSE
    /\ cached = NoResponse
    /\ response = NoResponse
    /\ run = 1
    /\ requested = FALSE

Next ==
    \/ ChartGeneratorInit
    \/ GetCache
    \/ RequestData
    \/ ExtractNodes
    \/ FormatTimes
    \/ FilterOnSprint
    \/ PrepData
    \/ PlotBurndownChart

Spec == Init /\ [][Next]_vars

(***************************************************************************)
(* The series builder and the plot called on a list of issues              *)
(***************************************************************************)
\* burndown_data = self.prep_data_for_burndown_chart(issues)
SeriesFromIssues ==
    /\ pc = "ready"
    /\ burndown' = prep_data_for_burndown_chart(dates, data)
    /\ pc' = "prepared"
    /\ UNCHANGED <<run, requested, config, dates, data, ideal_line, raised, cache_file, mtime, now,
                   ttl_seconds, force_refresh, cached, response>>

\* BurndownChart(config, dates, start, end).plot_burndown_chart(issues):
\* the series, then set_xlim(sprint_dates[0], ...), then the ideal line
BurndownChartPlot ==
    /\ pc = "ready"
    /\ burndown' = prepare_burndown_data(dates, data)
    /\ IF Len(burndown'.dates) = 0
           THEN /\ raised' = "IndexError"
                /\ pc' = "raised"
                /\ ideal_line' = ideal_line
           ELSE /\ ideal_line' = ideal_burndown(burndown'.total_issues,
                                                Len(burndown'.dates))
                /\ pc' = "plotted"
                /\ raised' = raised
    /\ UNCHANGED <<run, requested, config, dates, data, cache_file, mtime, now,
                   ttl_seconds, force_refresh, cached, response>>

\* issues as the series builder receives them: timestamps are DD-MM-YYYY
IssueLists == SeqsUpTo(Issues(DmyStrings), MaxIssues)

InitSeries ==
    /\ pc = "new"
    /\ config \in ConfigSet
    /\ dates = <<>>
    /\ data \in IssueLists
    /\ burndown = NoBurndown
    /\ ideal_line = <<>>
    /\ raised = "none"
    /\ cache_file = NoFile
    /\ now = Epoch
    /\ mtime = Epoch
    /\ ttl_seconds = CacheTtl
    /\ force_refresh = FALSE
    /\ cached = NoResponse
    /\ response = NoResponse
    /\ run = 1
    /\ requested = FALSE

NextSeries ==
    \/ ChartGeneratorInit
    \/ SeriesFromIssues
    \/ PlotBurndownChart
    \/ BurndownChartPlot

SpecSeries == InitSeries /\ [][NextSeries]_vars

(***************************************************************************)
(* Windows of every length up to MaxSpan + 1 days, and inverted ones,      *)
(* from anchors before a leap day, a non-leap February end, a year end     *)
(* and a 30-day month end                                                  *)
(***************************************************************************)
MaxSpan == 4

Anchors ==
    {Date(2024, 2, 27), Date(2025, 2, 27), Date(2024, 12, 30), Date(2025, 4, 29)}

WideConfigs ==
    {[start_date |-> strftime(a), end_date |-> strftime(PlusDays(a, k)),
      sprint |-> "7"] : a \in Anchors, k \in (-2)..MaxSpan}

\* lists of issues that stay open
OpenIssueLists ==
    SeqsUpTo({Issue(Content(strftime(a), None),
                    CHOOSE m \in Metas : m.sprintTag = "None") : a \in Anchors},
             MaxIssues)

InitDates ==
    /\ pc = "new"
    /\ config \in WideConfigs
    /\ dates = <<>>
    /\ data \in OpenIssueLists
    /\ burndown = NoBurndown
    /\ ideal_line = <<>>
    /\ raised = "none"
    /\ cache_file = NoFile
    /\ now = Epoch
    /\ mtime = Epoch
    /\ ttl_seconds = CacheTtl
    /\ force_refresh = FALSE
    /\ cached = NoResponse
    /\ response = NoResponse
    /\ run = 1
    /\ requested = FALSE

SpecDates == InitDates /\ [][NextSeries]_vars

(***************************************************************************)
(* check_and_get_cache called with any arguments                           *)
(***************************************************************************)
TtlValues == {-1, 0, 1, CacheTtl}

InitCache ==
    /\ pc = "new"
    /\ config \in ConfigSet
    /\ dates = <<>>
    /\ data = <<>>
    /\ burndown = NoBurndown
    /\ ideal_line = <<>>
    /\ raised = "none"
    /\ cache_file \in InitialFiles
    /\ now = Epoch
    /\ ttl_seconds \in TtlValues
    /\ mtime \in {Epoch - a : a \in AgeTicks(Max(ttl_seconds, 1))}
    /\ force_refresh \in BOOLEAN
    /\ cached = NoResponse
    /\ response = NoResponse
    /\ run = 1
    /\ requested = FALSE

NextCache ==
    \/ ChartGeneratorInit
    \/ GetCache

SpecCache == InitCache /\ [][NextCache]_vars

(***************************************************************************)
(* What the claims speak of, stated apart from the code's own loops:       *)
(* days are compared by their ordinal numbers                              *)
(***************************************************************************)
DayNumber(s) == ToOrdinal(Date(s[4], s[3], s[2]))

WindowStart == DayNumber(config.start_date)
WindowEnd   == DayNumber(config.end_date)

HasField(issue, field) ==
    /\ issue.content.kind = "dict"
    /\ issue.content[field] # None

\* the list the sprint filter received in generate_charts
FilterInput == format_times(response.nodes)

\* filter_on_sprint has been called in this run and has returned or raised
FilterCalled ==
    /\ response.kind = "nodes"
    /\ pc \in {"filtered", "prepared", "plotted", "raised"}

\* createdAt present, createdAt <= end_date, closedAt absent or >= start_date
InSprint(issue) ==
    /\ HasField(issue, "createdAt")
    /\ DayNumber(issue.content.createdAt) <= WindowEnd
    /\ \/ ~HasField(issue, "closedAt")
       \/ DayNumber(issue.content.closedAt) >= WindowStart

\* C1: filter_on_sprint keeps an issue iff createdAt is present, createdAt <=
\* end_date and closedAt is absent or >= start_date; the kept issues are in
\* the order of the input and nothing else is added.
C1_FilterKeepsOverlapping ==
    FilterCalled =>
        /\ raised # "AttributeError"
        /\ data = SelectSeq(FilterInput, InSprint)

\* C3: an issue whose sprintTag differs from the configured sprint is excluded
\* by the sprint filter; an issue without a sprintTag passes that clause.
C3_ForeignSprintExcluded ==
    (FilterCalled /\ raised # "AttributeError") =>
        \A i \in 1..Len(data) : data[i].sprintTag \in {"None", config.sprint}

\* C4: the pipeline keeps an issue only if its first label is the task label.
C4_FirstLabelIsTask ==
    (FilterCalled /\ burndown # NoBurndown) =>
        \A i \in 1..Len(data) : data[i].labels[1] = "task"

\* C6: create_dates called with start > end fails with InvalidRange and
\* returns no day sequence.
C6_InvertedWindowFails ==
    (pc # "new" /\ WindowStart > WindowEnd) => raised = "InvalidRange"

\* C7: an issue with no createdAt, also one whose content is absent or null,
\* is dropped by the sprint filter without an error and counts for nothing
\* in totalIssues and in the open counts.
C7_NoCreatedAtDroppedSilently ==
    (FilterCalled /\ \E i \in 1..Len(FilterInput) :
                        ~HasField(FilterInput[i], "createdAt")) =>
        /\ raised # "AttributeError"
        /\ \A i \in 1..Len(data) : HasField(data[i], "createdAt")
        /\ burndown # NoBurndown =>
               burndown.total_issues = Len(SelectSeq(FilterInput, InSprint))

\* the days of the window, by number: WindowStart .. WindowEnd
WindowDays == Max(0, WindowEnd - WindowStart + 1)

\* the issues of a list not yet closed on the day numbered `day`
NotYetClosed(issues, day) ==
    {i \in 1..Len(issues) :
        \/ ~HasField(issues[i], "closedAt")
        \/ day <= DayNumber(issues[i].content.closedAt)}

\* C2: for every day of the window the open count is the number of issues
\* whose closedAt is absent or not before the day; an issue closed on the day
\* is counted, and createdAt plays no part.
C2_OpenCountIsNotYetClosed ==
    burndown # NoBurndown =>
        \A d \in 1..WindowDays :
            burndown.open_issues[d]
                = Cardinality(NotYetClosed(data, WindowStart + d - 1))

\* a series in which an issue closed on a window day is counted on that day,
\* next to an issue created only after that day
C2_Witness ==
    /\ burndown # NoBurndown
    /\ \E d \in 1..WindowDays : \E i, j \in 1..Len(data) :
        /\ HasField(data[i], "closedAt")
        /\ DayNumber(data[i].content.closedAt) = WindowStart + d - 1
        /\ HasField(data[j], "createdAt")
        /\ DayNumber(data[j].content.createdAt) > WindowStart + d - 1
        /\ ~HasField(data[j], "closedAt")
        /\ i # j
        /\ burndown.open_issues[d] = 2

ValidDay(s) ==
    /\ s[3] \in 1..12
    /\ s[2] \in 1..DaysInMonth(s[4], s[3])

FracEq(a, b) == a.num * b.den = b.num * a.den
FracLE(a, b) == a.num * b.den <= b.num * a.den

\* C8: the ideal line has one value per window day, total - i * total / (n - 1)
\* for n > 1 days: it starts at totalIssues, never increases and ends at 0;
\* for one day it is [totalIssues].
C8_IdealLine ==
    pc = "plotted" =>
        LET n     == WindowDays
            total == burndown.total_issues
        IN  /\ Len(ideal_line) = n
            /\ n = 1 => FracEq(ideal_line[1], Frac(total, 1))
            /\ n > 1 =>
                /\ \A k \in 1..n :
                       FracEq(ideal_line[k],
                              Frac(total * (n - 1) - (k - 1) * total, n - 1))
                /\ FracEq(ideal_line[1], Frac(total, 1))
                /\ FracEq(ideal_line[n], Frac(0, 1))
                /\ \A k \in 1..(n - 1) : FracLE(ideal_line[k + 1], ideal_line[k])

\* three days and one issue: the ideal line is 1, 1/2, 0
C8_Witness ==
    /\ pc = "plotted"
    /\ Len(ideal_line) = 3
    /\ burndown.total_issues = 1
    /\ FracEq(ideal_line[2], Frac(1, 2))

\* C9: the series has one open count per window day, each between 0 and
\* totalIssues, and totalIssues is the number of issues given to the builder.
C9_OpenCountsBounded ==
    burndown # NoBurndown =>
        /\ Len(burndown.open_issues) = WindowDays
        /\ burndown.total_issues = Len(data)
        /\ \A d \in 1..Len(burndown.open_issues) :
               /\ 0 <= burndown.open_issues[d]
               /\ burndown.open_issues[d] <= burndown.total_issues

\* a series that goes from every issue open to none
C9_Witness ==
    /\ burndown # NoBurndown
    /\ burndown.total_issues >= 2
    /\ \E d, e \in 1..Len(burndown.open_issues) :
        /\ burndown.open_issues[d] = burndown.total_issues
        /\ burndown.open_issues[e] = 0

\* check_and_get_cache has been called and has returned or raised
CacheCalled == pc \in {"cache_checked", "raised"}

\* the age of the file in whole seconds, never negative
FileAge == IF now <= mtime THEN 0 ELSE (now - mtime) \div TicksPerSecond

CacheUsable ==
    /\ ~force_refresh
    /\ cache_file.kind = "json"
    /\ (ttl_seconds <= 0 \/ FileAge <= ttl_seconds)

\* C10: check_and_get_cache returns the cached response only when
\* force_refresh is false, the file exists and parses, and ttl_seconds <= 0 or
\* the age is at most ttl_seconds; otherwise it returns None; it never raises.
C10_CacheOnlyWhenFresh ==
    CacheCalled =>
        /\ raised = "none"
        /\ cached = IF CacheUsable THEN cache_file.content ELSE NoResponse

\* C11: in generate_charts, where the series is built from what the sprint
\* filter kept over the same non-empty window, the open count of the first
\* window day equals totalIssues.
C11_FirstDayCountsEveryIssue ==
    (FilterCalled /\ burndown # NoBurndown /\ WindowDays >= 1) =>
        burndown.open_issues[1] = burndown.total_issues

\* a run whose filter dropped an issue closed before the window and kept one
\* closed on its first day, which the series counts on that day
C11_Witness ==
    /\ FilterCalled
    /\ burndown # NoBurndown
    /\ WindowDays >= 1
    /\ Len(data) < Len(FilterInput)
    /\ \E i \in 1..Len(FilterInput) :
        /\ HasField(FilterInput[i], "createdAt")
        /\ HasField(FilterInput[i], "closedAt")
        /\ DayNumber(FilterInput[i].content.closedAt) < WindowStart
    /\ \E i \in 1..Len(data) :
        /\ HasField(data[i], "closedAt")
        /\ DayNumber(data[i].content.closedAt) = WindowStart
    /\ burndown.open_issues[1] >= 1

(***************************************************************************)
(* The program run again and again: python main.py, some time later, over  *)
(* the same resources/data.json                                            *)
(***************************************************************************)
MaxRuns == 2

\* ticks between one run and the next: at once, a ttl later, a ttl and a
\* fraction of a second later, a ttl and a second later
RunGaps ==
    {1, CacheTtl * TicksPerSecond, (CacheTtl + 1) * TicksPerSecond - 1,
     (CacheTtl + 1) * TicksPerSecond}

RunEnded == pc \in {"returned", "plotted", "raised"}

\* chart_generator = Chart_generator(); chart_generator.generate_charts(), in
\* a new process: only the configuration and the cache file are kept
NextRun ==
    /\ RunEnded
    /\ run < MaxRuns
    /\ run' = run + 1
    /\ \E gap \in RunGaps : now' = now + gap
    /\ pc' = "new"
    /\ dates' = <<>>
    /\ data' = <<>>
    /\ burndown' = NoBurndown
    /\ ideal_line' = <<>>
    /\ raised' = "none"
    /\ cached' = NoResponse
    /\ response' = NoResponse
    /\ requested' = FALSE
    /\ UNCHANGED <<config, cache_file, mtime, ttl_seconds, force_refresh>>

NextRuns ==
    \/ ChartGeneratorInit
    \/ GetCache
    \/ RequestFrom(CachedSamples)
    \/ ExtractNodes
    \/ FormatTimes
    \/ FilterOnSprint
    \/ PrepData
    \/ PlotBurndownChart
    \/ NextRun

SpecRuns == Init /\ [][NextRuns]_vars

\* a response in which data.user.projectV2.items.nodes is no list
WithoutNodes(r) == r.kind \in {"no_nodes", "null_path"}

NothingBuilt == burndown = NoBurndown /\ ideal_line = <<>>

\* the cache file was written before this run and is within the ttl
CachedEarlierWithinTtl ==
    /\ cache_file.kind = "json"
    /\ mtime < now
    /\ now - mtime <= ttl_seconds * TicksPerSecond

\* C12: the API is requested only on a cache miss and the response is cached
\* before it is validated: a response without a nodes list is cached, the run
\* returns without a series or a plot, and a later run within the TTL reads
\* that response and again returns without fetching or plotting.
C12_BadResponseCachedAndReturned ==
    /\ requested => (cached = NoResponse /\ cache_file = CacheFile("json", response))
    /\ (RunEnded /\ requested /\ WithoutNodes(response)) =>
           (pc = "returned" /\ NothingBuilt)
    /\ (RunEnded /\ CachedEarlierWithinTtl /\ WithoutNodes(cache_file.content)) =>
           /\ ~requested
           /\ response = cache_file.content
           /\ pc = "returned"
           /\ NothingBuilt

====
